---- MODULE Spec2Model ----
(***************************************************************************)
(* Model of process.go: concurrentProcess, a manager that runs external   *)
(* processes concurrently under a ceiling given by a weighted semaphore,  *)
(* collects the callbacks' errors in an errgroup.Group, and               *)
(* runProcessWithStdin, which runs one process and classifies its exit.   *)
(*                                                                         *)
(* Every call of run() is made by a goroutine of its own (callers may     *)
(* overlap or follow one another); task ids are given in the order of the *)
(* run() calls.  Each spawned worker goroutine advances through           *)
(*   spawned -> running -> release -> invoke -> callback -> returned ->   *)
(*   finished                                                              *)
(* and the goroutine calling wait() through idle -> waiting -> returned.  *)
(***************************************************************************)
EXTENDS Integers, Sequences, FiniteSets, TLC

\* Bounds of the model.
MaxTasks == 2
MaxPar == 2

\* Capacity of the OS pipe behind cmd.StdinPipe(), in bytes (scaled down: the
\* kernel's default is 65536).  io.WriteString blocks once it is full.
PipeBufSize == 1

Tasks == 1..MaxTasks
ParValues == (-1)..MaxPar
\* lengths of the stdin argument: one that fits into the pipe, one that does not
StdinLens == PipeBufSize..(PipeBufSize + 1)

\* error values: <<kind, detail>>; Nil is Go's nil error
Nil == <<"nil", 0>>
Err(kind, n) == <<kind, n>>

\* the stdin string of task i, of length n (distinct per task)
StdinOf(i, n) == [k \in 1..n |-> i]

\* What cmd.Output() can return for task i: (stdout, err) with err nil (exit
\* status 0), an *exec.ExitError (exit status 1.., or -1 when killed by a
\* signal), or another error (the executable could not be started, I/O error).
ExitErrorCodes == {-1, 1}
Stdouts(i) == {<< >>, <<i>>}
CmdOutputs(i) ==
    [stdout : Stdouts(i), err : {"nil"}, code : {0}]
    \cup [stdout : Stdouts(i), err : {"ExitError"}, code : ExitErrorCodes]
    \cup [stdout : Stdouts(i), err : {"other"}, code : {0}]
NotRun == [stdout |-> << >>, err |-> "notrun", code |-> 0]

\* the (stdout, err) pair runProcessWithStdin returns
Result(out, err) == [out |-> out, err |-> err]
NoResult == Result(<< >>, Err("unset", 0))

VARIABLES
    par,        \* the argument of newConcurrentProcess
    semaCur,    \* semaphore.Weighted: slots taken
    semaWaiters,\* semaphore.Weighted: FIFO of blocked Acquire calls (task ids)
    wgCount,    \* errgroup.Group: units not yet done
    egErr,      \* errgroup.Group: the error kept
    errOnce,    \* errgroup.Group: the sync.Once of egErr has fired
    tpc,        \* per task: where its run() call / worker goroutine is
    stdin,      \* per task: the stdin argument of run()
    pipe,       \* per task: the stdin pipe ("none", "open", "closed")
    closes,     \* per task: number of p.Close() calls
    procRes,    \* per task: what cmd.Output() returned
    result,     \* per task: what runProcessWithStdin returned
    relCount,   \* per task: number of sema.Release(1) calls
    cbCount,    \* per task: number of invocations of the callback
    cbArgs,     \* per task: the arguments the callback was invoked with
    cbRet,      \* per task: what the callback returned
    failOrder,  \* tasks whose error reached the errgroup, in that order
    waitPc,     \* the wait() call: "idle", "waiting", "returned"
    waitRet     \* what wait() returned

vars == <<par, semaCur, semaWaiters, wgCount, egErr, errOnce, tpc, stdin, pipe,
          closes, procRes, result, relCount, cbCount, cbArgs, cbRet, failOrder,
          waitPc, waitRet>>

semaVars == <<semaCur, semaWaiters>>
groupVars == <<wgCount, egErr, errOnce, failOrder>>
procVars == <<pipe, closes, procRes, result>>
cbVars == <<cbCount, cbArgs, cbRet>>
waitVars == <<waitPc, waitRet>>

----------------------------------------------------------------------------
\* a semaphore one slot too large
SemaSizeOffByOne(p) == p + 1

\* newConcurrentProcess: the semaphore's size
SemaSize(p) == p

Init ==
    /\ par \in ParValues
    /\ semaCur = 0
    /\ semaWaiters = << >>
    /\ wgCount = 0
    /\ egErr = Nil
    /\ errOnce = FALSE
    /\ tpc = [i \in Tasks |-> "none"]
    /\ stdin = [i \in Tasks |-> << >>]
    /\ pipe = [i \in Tasks |-> "none"]
    /\ closes = [i \in Tasks |-> 0]
    /\ procRes = [i \in Tasks |-> NotRun]
    /\ result = [i \in Tasks |-> NoResult]
    /\ relCount = [i \in Tasks |-> 0]
    /\ cbCount = [i \in Tasks |-> 0]
    /\ cbArgs = [i \in Tasks |-> NoResult]
    /\ cbRet = [i \in Tasks |-> Nil]
    /\ failOrder = << >>
    /\ waitPc = "idle"
    /\ waitRet = Nil

----------------------------------------------------------------------------
\* semaphore.Weighted, for weight 1

\* an Acquire that does not look at the slots taken
AcquireFastNoLimit(size, cur, waiters) == Len(waiters) = 0

\* Acquire succeeds at once: a slot is free and nobody is queued
AcquireFast(size, cur, waiters) == size - cur >= 1 /\ Len(waiters) = 0

\* Acquire can never succeed: the weight exceeds the size
AcquireDoomed(size) == 1 > size

\* a release that gives nothing back
ReleaseCurKept(cur) == cur

\* Release: the counter after giving one slot back
ReleaseCur(cur) == cur - 1

\* notifyWaiters: the first queued Acquire gets the slot just freed
NotifyFits(size, cur, waiters) == Len(waiters) > 0 /\ size - cur >= 1

----------------------------------------------------------------------------
\* run(): proc.sema.Acquire(proc.ctx, 1), then proc.eg.Go(...)

\* run() is called for task i: the calls are numbered in their order, and all
\* of them are made before wait() is called
NextTask(i) ==
    /\ waitPc = "idle"
    /\ tpc[i] = "none"
    /\ \A j \in Tasks : j < i => tpc[j] # "none"

RunAcquire(i) ==
    /\ NextTask(i)
    /\ AcquireFast(SemaSize(par), semaCur, semaWaiters)
    /\ \E n \in StdinLens : stdin' = [stdin EXCEPT ![i] = StdinOf(i, n)]
    /\ semaCur' = semaCur + 1
    /\ tpc' = [tpc EXCEPT ![i] = "acquired"]
    /\ UNCHANGED <<par, semaWaiters, groupVars, procVars, relCount, cbVars, waitVars>>

RunAcquireDoomed(i) ==
    /\ NextTask(i)
    /\ ~AcquireFast(SemaSize(par), semaCur, semaWaiters)
    /\ AcquireDoomed(SemaSize(par))
    /\ \E n \in StdinLens : stdin' = [stdin EXCEPT ![i] = StdinOf(i, n)]
    /\ tpc' = [tpc EXCEPT ![i] = "stuck"]
    /\ UNCHANGED <<par, semaVars, groupVars, procVars, relCount, cbVars, waitVars>>

RunAcquireWait(i) ==
    /\ NextTask(i)
    /\ ~AcquireFast(SemaSize(par), semaCur, semaWaiters)
    /\ ~AcquireDoomed(SemaSize(par))
    /\ \E n \in StdinLens : stdin' = [stdin EXCEPT ![i] = StdinOf(i, n)]
    /\ semaWaiters' = Append(semaWaiters, i)
    /\ tpc' = [tpc EXCEPT ![i] = "queued"]
    /\ UNCHANGED <<par, semaCur, groupVars, procVars, relCount, cbVars, waitVars>>

RunGo(i) ==
    /\ tpc[i] = "acquired"
    /\ wgCount' = wgCount + 1
    /\ tpc' = [tpc EXCEPT ![i] = "spawned"]
    /\ UNCHANGED <<par, semaVars, egErr, errOnce, failOrder, stdin, procVars,
                   relCount, cbVars, waitVars>>

----------------------------------------------------------------------------
\* runProcessWithStdin

\* cmd.StdinPipe() failed
PipeErrResult == Result(<< >>, Err("could not make stdin pipe", 0))

\* io.WriteString failed
WriteErrResult == Result(<< >>, Err("could not write to stdin", 0))

\* io.WriteString(p, stdin) returns only when the pipe has taken every byte;
\* nothing reads the pipe before cmd.Output() starts the process
WriteFits(s) == Len(s) <= PipeBufSize

\* a classification without the findings rule: every exit error is an error
ClassifyNoFindings(obs) ==
    IF obs.err # "nil"
    THEN IF obs.err = "ExitError"
         THEN IF obs.code < 0
              THEN Result(<< >>, Err("was terminated", 0))
              ELSE Result(<< >>, Err("exited with status", obs.code))
         ELSE Result(<< >>, Err("other", 0))
    ELSE Result(obs.stdout, Nil)

\* a classification without the empty-stdout check
ClassifyNoEmptyCheck(obs) ==
    IF obs.err # "nil"
    THEN IF obs.err = "ExitError"
         THEN IF obs.code < 0
              THEN Result(<< >>, Err("was terminated", 0))
              ELSE Result(obs.stdout, Nil)
         ELSE Result(<< >>, Err("other", 0))
    ELSE Result(obs.stdout, Nil)

\* a classification that looks at stdout before it looks at the exit code
ClassifyStdoutFirst(obs) ==
    IF obs.err # "nil"
    THEN IF obs.err = "ExitError"
         THEN IF Len(obs.stdout) # 0
              THEN Result(obs.stdout, Nil)
              ELSE IF obs.code < 0
                   THEN Result(<< >>, Err("was terminated", 0))
                   ELSE Result(<< >>, Err("exited with status but stdout was empty", obs.code))
         ELSE Result(<< >>, Err("other", 0))
    ELSE Result(obs.stdout, Nil)

\* a classification that lets an error other than an exit error pass
ClassifyOtherAsSuccess(obs) ==
    IF obs.err # "nil"
    THEN IF obs.err = "ExitError"
         THEN IF obs.code < 0
              THEN Result(<< >>, Err("was terminated", 0))
              ELSE IF Len(obs.stdout) = 0
                   THEN Result(<< >>, Err("exited with status but stdout was empty", obs.code))
                   ELSE Result(obs.stdout, Nil)
         ELSE Result(obs.stdout, Nil)
    ELSE Result(obs.stdout, Nil)

\* a classification that hands back the captured output with the error
ClassifyKeepPartial(obs) ==
    IF obs.err # "nil"
    THEN IF obs.err = "ExitError"
         THEN IF obs.code < 0
              THEN Result(obs.stdout, Err("was terminated", 0))
              ELSE IF Len(obs.stdout) = 0
                   THEN Result(<< >>, Err("exited with status but stdout was empty", obs.code))
                   ELSE Result(obs.stdout, Nil)
         ELSE Result(obs.stdout, Err("other", 0))
    ELSE Result(obs.stdout, Nil)

\* the classification of what cmd.Output() returned
ClassifyOutput(obs) ==
    IF obs.err # "nil"
    THEN IF obs.err = "ExitError"
         THEN IF obs.code < 0
              THEN Result(<< >>, Err("was terminated", 0))
              ELSE IF Len(obs.stdout) = 0
                   THEN Result(<< >>, Err("exited with status but stdout was empty", obs.code))
                   ELSE Result(obs.stdout, Nil)
         ELSE Result(<< >>, Err("other", 0))
    ELSE Result(obs.stdout, Nil)

\* a write-error path that forgets to close the pipe
CloseCallsLeakOnError(writeOk) == IF writeOk THEN 1 ELSE 0

\* the number of p.Close() calls after io.WriteString returned (with or
\* without an error)
CloseCalls(writeOk) == 1

\* the pipe after n calls of p.Close()
PipeAfter(n) == IF n > 0 THEN "closed" ELSE "open"

\* cmd.StdinPipe() returns an error: runProcessWithStdin returns it
StdinPipeFail(i) ==
    /\ tpc[i] = "spawned"
    /\ result' = [result EXCEPT ![i] = PipeErrResult]
    /\ tpc' = [tpc EXCEPT ![i] = "release"]
    /\ UNCHANGED <<par, semaVars, groupVars, stdin, pipe, closes, procRes,
                   relCount, cbVars, waitVars>>

\* the pipe is made, the write never returns: the input does not fit into the
\* pipe and the process that would read it has not been started
WriteBlocks(i) ==
    /\ tpc[i] = "spawned"
    /\ ~WriteFits(stdin[i])
    /\ pipe' = [pipe EXCEPT ![i] = "open"]
    /\ tpc' = [tpc EXCEPT ![i] = "blocked"]
    /\ UNCHANGED <<par, semaVars, groupVars, stdin, closes, procRes, result,
                   relCount, cbVars, waitVars>>

\* the pipe is made, the write fails: the pipe is closed, the error returned
WriteFail(i) ==
    /\ tpc[i] = "spawned"
    /\ pipe' = [pipe EXCEPT ![i] = PipeAfter(CloseCalls(FALSE))]
    /\ closes' = [closes EXCEPT ![i] = @ + CloseCalls(FALSE)]
    /\ result' = [result EXCEPT ![i] = WriteErrResult]
    /\ tpc' = [tpc EXCEPT ![i] = "release"]
    /\ UNCHANGED <<par, semaVars, groupVars, stdin, procRes, relCount, cbVars,
                   waitVars>>

\* the pipe is made, the input written, the pipe closed; cmd.Output() is called
WriteOk(i) ==
    /\ tpc[i] = "spawned"
    /\ WriteFits(stdin[i])
    /\ pipe' = [pipe EXCEPT ![i] = PipeAfter(CloseCalls(TRUE))]
    /\ closes' = [closes EXCEPT ![i] = @ + CloseCalls(TRUE)]
    /\ tpc' = [tpc EXCEPT ![i] = "running"]
    /\ UNCHANGED <<par, semaVars, groupVars, stdin, procRes, result, relCount,
                   cbVars, waitVars>>

\* cmd.Output() returns; runProcessWithStdin classifies and returns
Output(i) ==
    /\ tpc[i] = "running"
    /\ \E obs \in CmdOutputs(i) :
          /\ procRes' = [procRes EXCEPT ![i] = obs]
          /\ result' = [result EXCEPT ![i] = ClassifyOutput(obs)]
    /\ tpc' = [tpc EXCEPT ![i] = "release"]
    /\ UNCHANGED <<par, semaVars, groupVars, stdin, pipe, closes, relCount,
                   cbVars, waitVars>>

----------------------------------------------------------------------------
\* the worker goroutine of run(), after runProcessWithStdin returned

\* a callback that is handed the error but never the output
CallbackArgsNoOutput(res) == Result(<< >>, res.err)

\* the arguments of callback(stdout, err)
CallbackArgs(res) == res

\* a unit that wraps what the callback returned, nil included
UnitReturnWrapped(res, e) == Err("wrapped", 0)

\* a unit that returns the error of runProcessWithStdin when there is one
UnitReturnProcErr(res, e) == IF res.err # Nil THEN res.err ELSE e

\* what the function handed to eg.Go returns, after runProcessWithStdin
\* returned res and the callback returned e: what the callback returned
UnitReturn(res, e) == e

\* what a callback may return: nil or an error of its own
CallbackReturns(i) == {Nil, Err("callback", i)}

\* proc.sema.Release(1): the slot is given back, or handed to the first
\* queued Acquire
Release(i) ==
    /\ tpc[i] = "release"
    /\ LET cur == ReleaseCur(semaCur) IN
         IF NotifyFits(SemaSize(par), cur, semaWaiters)
         THEN /\ semaCur' = cur + 1
              /\ semaWaiters' = Tail(semaWaiters)
              /\ tpc' = [tpc EXCEPT ![i] = "invoke",
                                    ![Head(semaWaiters)] = "acquired"]
         ELSE /\ semaCur' = cur
              /\ semaWaiters' = semaWaiters
              /\ tpc' = [tpc EXCEPT ![i] = "invoke"]
    /\ relCount' = [relCount EXCEPT ![i] = @ + 1]
    /\ UNCHANGED <<par, groupVars, stdin, procVars, cbVars, waitVars>>

\* callback(stdout, err) is invoked
Invoke(i) ==
    /\ tpc[i] = "invoke"
    /\ cbCount' = [cbCount EXCEPT ![i] = @ + 1]
    /\ cbArgs' = [cbArgs EXCEPT ![i] = CallbackArgs(result[i])]
    /\ tpc' = [tpc EXCEPT ![i] = "callback"]
    /\ UNCHANGED <<par, semaVars, groupVars, stdin, procVars, relCount, cbRet,
                   waitVars>>

\* the callback returns
CallbackReturn(i) ==
    /\ tpc[i] = "callback"
    /\ \E e \in CallbackReturns(i) : cbRet' = [cbRet EXCEPT ![i] = e]
    /\ tpc' = [tpc EXCEPT ![i] = "returned"]
    /\ UNCHANGED <<par, semaVars, groupVars, stdin, procVars, relCount, cbCount,
                   cbArgs, waitVars>>

\* a group that keeps what the last unit returned, nil included
KeepErrOverwrite(kept, once, e) == e

\* a group that keeps the last error
KeepErrLast(kept, once, e) == IF e # Nil THEN e ELSE kept

\* errgroup: the error the group keeps when a unit returned e
KeepErr(kept, once, e) == IF e # Nil /\ ~once THEN e ELSE kept

\* errgroup: a unit's function returned: errOnce.Do(...) for a non-nil error,
\* then wg.Done()
GoDone(i) ==
    /\ tpc[i] = "returned"
    /\ egErr' = KeepErr(egErr, errOnce, UnitReturn(result[i], cbRet[i]))
    /\ errOnce' = (errOnce \/ UnitReturn(result[i], cbRet[i]) # Nil)
    /\ failOrder' = IF UnitReturn(result[i], cbRet[i]) # Nil
                    THEN Append(failOrder, i) ELSE failOrder
    /\ wgCount' = wgCount - 1
    /\ tpc' = [tpc EXCEPT ![i] = "finished"]
    /\ UNCHANGED <<par, semaVars, stdin, procVars, relCount, cbVars, waitVars>>

----------------------------------------------------------------------------
\* wait(): proc.eg.Wait()

\* tasks whose run() has been called, and those whose run() has returned
Submitted == {i \in Tasks : tpc[i] # "none"}
InRun == {i \in Tasks : tpc[i] \in {"queued", "stuck", "acquired"}}

\* wait() is called once every call of run() has returned
WaitCall ==
    /\ waitPc = "idle"
    /\ InRun = {}
    /\ waitPc' = "waiting"
    /\ UNCHANGED <<par, semaVars, groupVars, tpc, stdin, procVars, relCount,
                   cbVars, waitRet>>

\* a wait that returns while a unit is still outstanding
WaitDoneEarly(count) == count <= 1

\* wg.Wait() returns when no unit is outstanding; eg.Wait() returns g.err
WaitDone(count) == count = 0

WaitReturn ==
    /\ waitPc = "waiting"
    /\ WaitDone(wgCount)
    /\ waitPc' = "returned"
    /\ waitRet' = egErr
    /\ UNCHANGED <<par, semaVars, groupVars, tpc, stdin, procVars, relCount,
                   cbVars>>

----------------------------------------------------------------------------
Next ==
    \/ \E i \in Tasks :
        \/ RunAcquire(i)
        \/ RunAcquireDoomed(i)
        \/ RunAcquireWait(i)
        \/ RunGo(i)
        \/ StdinPipeFail(i)
        \/ WriteBlocks(i)
        \/ WriteFail(i)
        \/ WriteOk(i)
        \/ Output(i)
        \/ Release(i)
        \/ Invoke(i)
        \/ CallbackReturn(i)
        \/ GoDone(i)
    \/ WaitCall
    \/ WaitReturn

Spec == Init /\ [][Next]_vars

\* A single caller: run() is called only when the previous call has returned
NextSeq ==
    \/ \E i \in Tasks :
        \/ InRun = {} /\ RunAcquire(i)
        \/ InRun = {} /\ RunAcquireDoomed(i)
        \/ InRun = {} /\ RunAcquireWait(i)
        \/ RunGo(i)
        \/ StdinPipeFail(i)
        \/ WriteBlocks(i)
        \/ WriteFail(i)
        \/ WriteOk(i)
        \/ Output(i)
        \/ Release(i)
        \/ Invoke(i)
        \/ CallbackReturn(i)
        \/ GoDone(i)
    \/ WaitCall
    \/ WaitReturn

SeqSpec == Init /\ [][NextSeq]_vars

\* the first part of runProcessWithStdin, up to the call of cmd.Output()
Prepare(i) == StdinPipeFail(i) \/ WriteBlocks(i) \/ WriteFail(i) \/ WriteOk(i)

\* a step of the worker goroutine of task i
WorkerStep(i) ==
Prepare(i) \/ Output(i) \/ Release(i) \/ Invoke(i) \/ CallbackReturn(i)
        \/ GoDone(i)

\* Scheduling: a goroutine that can take a step takes it, and every process
\* that was started exits.  Nothing is assumed about the callbacks: a callback
\* may never return.
FairSpec ==
    Spec /\ \A i \in Tasks :
        /\ WF_vars(RunGo(i))
        /\ WF_vars(Prepare(i))
        /\ WF_vars(Output(i))
        /\ WF_vars(Release(i))
        /\ WF_vars(Invoke(i))

----------------------------------------------------------------------------
\* Properties

\* tasks between "sema.Acquire returned" and "sema.Release called"
Held == {i \in Tasks : tpc[i] \in {"acquired", "spawned", "running", "blocked", "release"}}

\* tasks that have called sema.Release(1)
Released == {i \in Tasks : tpc[i] \in {"invoke", "callback", "returned", "finished"}}

\* tasks whose callback has been invoked
Called == {i \in Tasks : tpc[i] \in {"callback", "returned", "finished"}}

AllFinished == \A i \in Submitted : tpc[i] = "finished"

\* C1: with parallelism N >= 1, at most N tasks are between gate acquired and
\* gate released, and the semaphore's counter is their number: 0 <= held <= N.
C1_GateBound ==
    par >= 1 =>
        /\ Cardinality(Held) <= par
        /\ semaCur = Cardinality(Held)
        /\ 0 <= semaCur /\ semaCur <= par

\* C1 witness: the gate is full and another run() call is suspended in Acquire
C1_Witness ==
    /\ par >= 1
    /\ Cardinality(Held) = par
    /\ \E i \in Tasks : tpc[i] = "queued"

\* C2: when wait() has returned, every submitted task has finished (its
\* callback has returned), also when a task failed before the others finished.
C2_WaitAfterAll ==
    waitPc = "returned" => \A i \in Submitted : tpc[i] = "finished"

\* C2 witness: wait() returned after all tasks, one of which had failed
C2_Witness ==
    /\ waitPc = "returned"
    /\ Submitted = Tasks
    /\ failOrder # << >>
    /\ \E i \in Tasks : cbRet[i] = Nil /\ tpc[i] = "finished"

\* C3: if a callback of a submitted task returned a non-nil error, wait()
\* returns a non-nil error, whatever the other callbacks returned.
C3_ErrorSurfaces ==
    (waitPc = "returned" /\ \E i \in Submitted : cbRet[i] # Nil) => waitRet # Nil

\* C3 witness: wait() returned, one callback failed and another did not
C3_Witness ==
    /\ waitPc = "returned"
    /\ \E i, j \in Submitted : cbRet[i] # Nil /\ cbRet[j] = Nil
    /\ waitRet # Nil

\* C4: the error the group keeps is the error of the failing task whose unit
\* completed first; it is never overwritten, and it is what wait() returns.
C4_FirstErrorWins ==
    /\ failOrder # << >> => egErr = cbRet[failOrder[1]]
    /\ failOrder = << >> => egErr = Nil
    /\ (waitPc = "returned" /\ failOrder # << >>) => waitRet = cbRet[failOrder[1]]

\* C4 witness: two tasks failed, the one submitted later first, wait() returned
C4_Witness ==
    /\ waitPc = "returned"
    /\ Len(failOrder) >= 2
    /\ failOrder[1] > failOrder[2]

\* C5 as stated: if every submitted task's process exits with status 0, wait()
\* returns no error.
C5_Original ==
    (waitPc = "returned" /\ \A i \in Submitted : procRes[i].err = "nil")
        => waitRet = Nil

\* C5 amended: if every submitted task's process exits with status 0 and every
\* callback returns nil, wait() returns no error.
C5_Amended ==
    (waitPc = "returned"
        /\ \A i \in Submitted : procRes[i].err = "nil" /\ cbRet[i] = Nil)
        => waitRet = Nil

\* C5 witness: every task ran a process that exited 0, wait() returned nil
C5_Witness ==
    /\ waitPc = "returned"
    /\ Submitted = Tasks
    /\ \A i \in Tasks : procRes[i].err = "nil" /\ cbRet[i] = Nil
    /\ waitRet = Nil

\* the process of task i exited with a status > 0
ExitedNonZero(i) == procRes[i].err = "ExitError" /\ procRes[i].code > 0

\* the process of task i was killed by a signal
Signalled(i) == procRes[i].err = "ExitError" /\ procRes[i].code < 0

\* C6: a process that exits with a status > 0 and has written non-empty stdout
\* makes runProcessWithStdin return that output and nil; the callback gets them.
C6_FindingsAsSuccess ==
    \A i \in Tasks :
        (ExitedNonZero(i) /\ Len(procRes[i].stdout) > 0) =>
            /\ result[i] = Result(procRes[i].stdout, Nil)
            /\ i \in Called => cbArgs[i] = Result(procRes[i].stdout, Nil)

\* C6 witness: such a process, and its callback has been invoked
C6_Witness ==
    \E i \in Called : ExitedNonZero(i) /\ Len(procRes[i].stdout) > 0

\* C7: a process that exits with a non-zero status and empty stdout makes
\* runProcessWithStdin return a non-nil error; the callback gets that error.
C7_EmptyStdoutIsError ==
    \A i \in Tasks :
        (procRes[i].err = "ExitError" /\ Len(procRes[i].stdout) = 0) =>
            /\ result[i].err # Nil
            /\ result[i].out = << >>
            /\ i \in Called => cbArgs[i] = result[i]

\* C7 witness: a process exited with status 1 and no output, callback invoked
C7_Witness ==
    \E i \in Called : ExitedNonZero(i) /\ Len(procRes[i].stdout) = 0

\* C8: a process killed by a signal makes runProcessWithStdin return a non-nil
\* error whether stdout is empty or not.
C8_SignalIsError ==
    \A i \in Tasks :
        Signalled(i) =>
            /\ result[i].err # Nil
            /\ result[i].out = << >>
            /\ i \in Called => cbArgs[i] = result[i]

\* C8 witness: a process killed by a signal after writing output, callback invoked
C8_Witness ==
    \E i \in Called : Signalled(i) /\ Len(procRes[i].stdout) > 0

\* C9: the callback of every submitted task is invoked exactly once, with the
\* result of the task's own process run.
C9_CallbackOnceOwnResult ==
    /\ \A i \in Tasks :
          /\ cbCount[i] = (IF i \in Called THEN 1 ELSE 0)
          /\ i \in Called =>
                /\ cbArgs[i] = result[i]
                /\ procRes[i] # NotRun =>
                      \/ cbArgs[i] = Result(procRes[i].stdout, Nil)
                      \/ cbArgs[i].out = << >> /\ cbArgs[i].err # Nil
                /\ procRes[i] = NotRun =>
                      cbArgs[i] \in {PipeErrResult, WriteErrResult}
    /\ waitPc = "returned" => \A i \in Submitted : cbCount[i] = 1

\* C9 witness: all tasks finished; one process failed and its callback returned
\* an error, another callback received its own process's output
C9_Witness ==
    /\ waitPc = "returned"
    /\ Submitted = Tasks
    /\ \E i, j \in Tasks :
          /\ i # j
          /\ result[i].err # Nil /\ cbRet[i] # Nil
          /\ cbArgs[j] = Result(<<j>>, Nil)

\* C10: every acquire is matched by exactly one release on every path of
\* runProcessWithStdin; held is never negative and is 0 once all submitted
\* tasks have finished.
C10_ReleaseMatchesAcquire ==
    /\ \A i \in Tasks : relCount[i] = (IF i \in Released THEN 1 ELSE 0)
    /\ semaCur >= 0
    /\ AllFinished => semaCur = 0

\* C10 witness: all tasks finished, each along a different error path
C10_Witness ==
    /\ Submitted = Tasks
    /\ AllFinished
    /\ \A i \in Tasks : result[i].err # Nil
    /\ \A i, j \in Tasks : i # j => result[i].err # result[j].err
    /\ semaCur = 0

\* tasks that have acquired a slot and have not called sema.Release(1)
AdmittedNotReleased ==
    {i \in Tasks : tpc[i] \notin {"none", "queued", "stuck"} /\ relCount[i] = 0}

\* C11: within a task the process run finishes, then the slot is released, then
\* the callback is invoked; no slot is held by a task whose callback executes.
C11_ReleaseBeforeCallback ==
    /\ \A i \in Tasks :
          /\ relCount[i] >= 1 => result[i] # NoResult
          /\ cbCount[i] >= 1 => relCount[i] = 1 /\ result[i] # NoResult
    /\ par >= 1 => semaCur = Cardinality(AdmittedNotReleased)

\* C11 witness: with one slot, a callback executes while the next task holds
\* the slot
C11_Witness ==
    /\ par = 1
    /\ \E i, j \in Tasks : tpc[i] = "callback" /\ tpc[j] = "running"

\* C12: wait() returns an error exactly when a callback returned one; a failed
\* process run whose callback returns nil does not make wait() return an error.
C12_CallbackDecides ==
    waitPc = "returned" =>
        /\ waitRet # Nil <=> \E i \in Submitted : cbRet[i] # Nil
        /\ \A i \in Submitted : cbArgs[i] = result[i]

\* C12 witness: a process run failed, its callback was handed the error and
\* returned nil, wait() returned nil
C12_Witness ==
    /\ waitPc = "returned"
    /\ \E i \in Submitted : cbArgs[i].err # Nil /\ cbRet[i] = Nil
    /\ waitRet = Nil

\* cmd.Output() could not start the executable of task i
StartFailed(i) == procRes[i].err = "other" /\ Len(procRes[i].stdout) = 0

\* C13: when the executable cannot be started, the callback is handed a
\* non-nil error and no output; the slot is released, so a suspended run() waits
\* only for slots that are really held, and wait() can return once all finished.
C13_StartFailureDelivered ==
    /\ \A i \in Tasks :
          StartFailed(i) =>
              /\ result[i].err # Nil /\ result[i].out = << >>
              /\ i \in Called => cbArgs[i] = result[i] /\ relCount[i] = 1
    /\ (par >= 1 /\ \E i \in Tasks : tpc[i] = "queued")
          => Cardinality(AdmittedNotReleased) = par
    /\ AllFinished => wgCount = 0

\* C13 witness: with one slot, the first task's executable could not be started;
\* the second task was admitted and ran its process, and wait() returned
C13_Witness ==
    /\ par = 1
    /\ waitPc = "returned"
    /\ StartFailed(1)
    /\ \E j \in Tasks : j > 1 /\ procRes[j].err = "nil" /\ tpc[j] = "finished"

\* C14 as stated: a parallelism <= 0 is rejected at construction, so no run()
\* call is ever left blocked forever in Acquire.
C14_FailFast ==
    par <= 0 => \A i \in Tasks : tpc[i] # "stuck"

\* C15 as stated: with parallelism >= 1, if every started process exits, a
\* run() call suspended in Acquire is eventually admitted and returns, whether
\* or not the callbacks return.
C15_QueuedAdmitted ==
    \A i \in Tasks :
        (par >= 1 /\ tpc[i] = "queued") ~> (tpc[i] \notin {"queued", "acquired"})

\* C16 as stated: an admitted task never blocks forever: as long as it has not
\* finished, its worker goroutine has a step to take, whatever the length of
\* the input.
C16_NoWorkerBlocksForever ==
    \A i \in Tasks :
        tpc[i] \in {"spawned", "blocked", "running", "release", "invoke",
                    "callback", "returned"}
            => ENABLED WorkerStep(i)

\* the states of a task: 0 not submitted, 1 Queued, 2 Admitted, 3 Running
\* (runProcessWithStdin executes), 4 Completed, 5 CallbackInvoked, 6 Finished
\* or Failed
Stage(pc) ==
    CASE pc = "none" -> 0
      [] pc \in {"queued", "stuck"} -> 1
      [] pc = "acquired" -> 2
      [] pc \in {"spawned", "blocked", "running"} -> 3
      [] pc \in {"release", "invoke"} -> 4
      [] pc \in {"callback", "returned"} -> 5
      [] pc = "finished" -> 6

\* the number of times task i was reported as failed to the group
TimesFailed(i) == Cardinality({k \in 1..Len(failOrder) : failOrder[k] = i})

\* a task stays in its state or moves to the next one; a run() call that finds
\* a free slot is Queued and Admitted in one step
C17_Step ==
    \A i \in Tasks :
        \/ Stage(tpc'[i]) = Stage(tpc[i])
        \/ Stage(tpc'[i]) = Stage(tpc[i]) + 1
        \/ Stage(tpc[i]) = 0 /\ Stage(tpc'[i]) = 2

C17_Inv ==
    /\ Cardinality({i \in Tasks : tpc[i] = "running"}) <= semaCur
    /\ par >= 1 => semaCur <= par
    /\ \A i \in Tasks :
          /\ TimesFailed(i) <= 1
          /\ tpc[i] # "finished" => TimesFailed(i) = 0
          /\ tpc[i] = "finished" => (TimesFailed(i) = 1 <=> cbRet[i] # Nil)

\* C17: each task moves only along Queued -> Admitted -> Running -> Completed
\* -> CallbackInvoked -> Finished | Failed, without skipping or revisiting a
\* state; running processes <= held <= N; a task is Failed iff its callback
\* returned a non-nil error, and is reported once.
C17_TaskLifecycle == [](C17_Inv) /\ [][C17_Step]_vars

\* C17 witness: a task that waited in the queue has finished, one task Failed
\* and one Finished
C17_Witness ==
    /\ par = 1
    /\ \A i \in Tasks : tpc[i] = "finished"
    /\ \E i, j \in Tasks : TimesFailed(i) = 1 /\ TimesFailed(j) = 0

\* C18: once made, the stdin pipe is closed exactly once on every path: it is
\* closed when runProcessWithStdin has returned and while cmd.Output() runs.
C18_PipeClosedOnce ==
    \A i \in Tasks :
        /\ closes[i] <= 1
        /\ pipe[i] = "closed" <=> closes[i] = 1
        /\ result[i] # NoResult => pipe[i] # "open"
        /\ (tpc[i] = "running" \/ procRes[i] # NotRun) => pipe[i] = "closed"
        /\ result[i] = WriteErrResult => closes[i] = 1 /\ procRes[i] = NotRun
        /\ result[i] = PipeErrResult => pipe[i] = "none"

\* C18 witness: one task returned the write error with its pipe closed, another
\* waited for its process with its pipe closed
C18_Witness ==
    \E i, j \in Tasks :
        /\ result[i] = WriteErrResult /\ closes[i] = 1
        /\ procRes[j] # NotRun /\ closes[j] = 1

\* tasks whose Acquire has returned
Admitted == {i \in Tasks : tpc[i] \notin {"none", "queued", "stuck"}}

\* C19: with a single caller calling run() sequentially, tasks acquire their
\* slots in submission order; with parallelism 1 a task acquires its slot only
\* after every earlier task has released its own, so runProcessWithStdin runs
\* for one task at a time, in submission order.
C19_SubmissionOrder ==
    /\ \A i, j \in Tasks : (i < j /\ j \in Admitted) => i \in Admitted
    /\ par = 1 =>
          /\ \A i, j \in Tasks : (i < j /\ j \in Admitted) => relCount[i] = 1
          /\ Cardinality({i \in Tasks : Stage(tpc[i]) = 3}) <= 1

\* C19 witness: with parallelism 1 the callback of the second task has
\* returned while the callback of the first still executes
C19_Witness ==
    /\ par = 1
    /\ tpc[1] = "callback"
    /\ \E j \in Tasks : j > 1 /\ tpc[j] = "finished"

\* C20: runProcessWithStdin returns either (output, nil) or (nil, error), never
\* both; output captured before a failure is dropped; the callback gets the pair.
C20_OutputXorError ==
    \A i \in Tasks :
        /\ result[i].err = Nil \/ result[i].out = << >>
        /\ (result[i].err = Nil /\ procRes[i] # NotRun)
              => result[i].out = procRes[i].stdout
        /\ i \in Called =>
              /\ cbArgs[i] = result[i]
              /\ cbArgs[i].err = Nil \/ cbArgs[i].out = << >>

\* C20 witness: a process failed after writing output; its callback was handed
\* the error without the output
C20_Witness ==
    \E i \in Called :
        /\ procRes[i].err \in {"ExitError", "other"}
        /\ Len(procRes[i].stdout) > 0
        /\ cbArgs[i].err # Nil /\ cbArgs[i].out = << >>
====
